---- MODULE Spec2Model ----
(***************************************************************************)
(* tracklab VisualizationEngine: frame sampling, the ordered worker pool   *)
(* (multiprocessing.Pool.imap), the image sink and the PyAV encoder        *)
(* session, as driven by on_video_loop_end / visualize.                    *)
(***************************************************************************)
EXTENDS Integers, Sequences, FiniteSets, TLC

\* ------------------------------------------------------------------ bounds
MaxFrames == 4      \* largest number of frames of one video
MaxBudget == 4      \* largest process_n_frames_by_video
MaxVideos == 2      \* on_video_loop_end calls on one engine
Workers == 2        \* worker processes of the pool
MaxVisualizers == 2 \* largest number of configured visualizers

\* Python's None for the Optional[int] options
None == -1

VARIABLES
    visualizers,    \* self.visualizers.values(), named by configured position
    save_images,    \* self.save_images
    save_videos,    \* self.save_videos
    max_frames,     \* self.max_frames  (process_n_frames_by_video)
    max_videos,     \* self.max_videos  (process_n_videos)
    video_idx,      \* number of on_video_loop_end calls made so far
    pc,             \* position of the orchestrator in on_video_loop_end/visualize
    err,            \* exception that left visualize ("" when none)
    nframes,        \* len(image_metadatas) of the current video
    lacking,        \* image ids of the current video with no detection group
    args,           \* the render tasks built (the image id of each), in order
    pool,           \* "none" | "running" | "terminated"
    dispatched,     \* number of tasks workers have taken from the task queue
    inflight,       \* tasks being processed by a worker
    results,        \* per task: "pending" | "ok" | "exc"
    rendered,       \* per task: the frame process_frame returned (NoFrame if none)
    consumed,       \* task numbers yielded by imap to the for loop, in order
    images,         \* image ids written by cv2.imwrite, in order
    enc,            \* encoder session: "Unopened" | "Open" | "Flushing" | "Closed"
    encoded,        \* image ids submitted to stream.encode(frame), in order
    emitted,        \* image ids whose packet the codec has emitted, in order
    muxed,          \* image ids whose packet was written by container.mux, in order
    flushes,        \* stream.encode() end-of-stream calls of this run
    closes,         \* container.close() calls of this run
    pInit,          \* progress.init_progress_bar calls of this run
    pTotal,         \* total announced to the progress bar
    pSteps          \* progress.on_module_step_end calls of this run

config == <<visualizers, save_images, save_videos, max_frames, max_videos>>
poolVars == <<pool, dispatched, inflight, results, rendered>>
sinkVars == <<images, enc, encoded, emitted, muxed, flushes, closes>>
progressVars == <<pInit, pTotal, pSteps>>
vars == <<visualizers, save_images, save_videos, max_frames, max_videos,
          video_idx, pc, err, nframes, lacking, args, pool, dispatched, inflight,
          results, rendered, consumed,
          images, enc, encoded, emitted, muxed, flushes, closes, pInit, pTotal,
          pSteps>>

\* ----------------------------------------------------------------- helpers
Range(s) == {s[i] : i \in 1..Len(s)}
Prefix(s, n) == [i \in 1..n |-> s[i]]
Last(s) == s[Len(s)]

\* image_metadatas.index of a video with n frames: the image ids in frame order
Index(n) == [i \in 1..n |-> i - 1]

\* `self.max_frames or len(image_metadatas.index)`: None and 0 are falsy
Total(n) == IF max_frames = None \/ max_frames = 0 THEN n ELSE max_frames

\* itertools.islice(seq, 0, None, step): positions 0, step, 2*step, ...
RECURSIVE isliceFrom(_, _, _)
isliceFrom(seq, i, step) ==
    IF i > Len(seq) THEN <<>>
    ELSE <<seq[i]>> \o isliceFrom(seq, i + step, step)

\* A sampler that computes total positions k * stride instead of slicing.
SampleByRange(n, total) ==
    IF total = 0 THEN [error |-> "ZeroDivisionError", val |-> <<>>]
    ELSE [error |-> "",
          val |-> [k \in 1..(IF n = 0 THEN 0 ELSE total) |-> (k - 1) * (n \div total)]]

\* A sampler that takes the first total frames.
SampleFirst(n, total) ==
    IF total = 0 THEN [error |-> "ZeroDivisionError", val |-> <<>>]
    ELSE IF n \div total < 1 THEN [error |-> "ValueError", val |-> <<>>]
    ELSE [error |-> "", val |-> Prefix(Index(n), total)]

\* The frame sampler of visualize: islice(index, 0, None, nframes // total).
\* nframes // 0 raises ZeroDivisionError; islice rejects a step below 1 with
\* ValueError.  A record [error, val].
Sample(n, total) ==
    IF total = 0 THEN [error |-> "ZeroDivisionError", val |-> <<>>]
    ELSE IF n \div total < 1 THEN [error |-> "ValueError", val |-> <<>>]
    ELSE [error |-> "", val |-> isliceFrom(Index(n), 1, n \div total)]

\* The list comprehension building args: get_group(image_id) raises KeyError
\* for an image id that has no group of records.
BuildArgs(ids, lack) ==
    IF \E i \in 1..Len(ids) : ids[i] \in lack
    THEN [error |-> "KeyError", val |-> <<>>]
    ELSE [error |-> "", val |-> ids]

\* ------------------------------------------------------------------- Init
Init ==
    /\ visualizers \in {[i \in 1..n |-> i] : n \in 0..MaxVisualizers}
    /\ save_images \in BOOLEAN
    /\ save_videos \in BOOLEAN
    /\ max_frames \in {None} \cup 1..MaxBudget
    /\ max_videos \in {None} \cup 1..MaxVideos
    /\ video_idx = 0
    /\ pc = "idle"
    /\ err = ""
    /\ nframes = 0
    /\ lacking = {}
    /\ args = <<>>
    /\ pool = "none"
    /\ dispatched = 0
    /\ inflight = {}
    /\ results = <<>>
    /\ rendered = <<>>
    /\ consumed = <<>>
    /\ images = <<>>
    /\ enc = "Unopened"
    /\ encoded = <<>>
    /\ emitted = <<>>
    /\ muxed = <<>>
    /\ flushes = 0
    /\ closes = 0
    /\ pInit = 0
    /\ pTotal = 0
    /\ pSteps = 0

\* ---------------------------------------------------------------- raising
\* The state of the pool where lines 55-94 of visualize run: `with Pool()`
\* comes after them, so no pool has been provisioned yet.
PoolHoisted == "running"
PoolBeforeWith == "none"

\* Pool.__exit__ (leaving the `with Pool() as p` block, normally or by an
\* exception) calls terminate(), which stops and joins the workers.
PoolLeaked(p) == p
PoolAfterExit(p) == "terminated"

\* An exception raised in lines 55-94: it leaves visualize at once.
RaiseInSetup(e) ==
    /\ pc' = "raised"
    /\ err' = e

\* An exception raised inside the `with Pool()` block: the block is left
\* through Pool.__exit__ and the exception leaves visualize; lines 120-126
\* are not executed.
RaiseInPool(e) ==
    /\ pc' = "raised"
    /\ err' = e
    /\ pool' = PoolAfterExit(pool)
    /\ inflight' = IF pool' = "terminated" THEN {} ELSE inflight
    /\ UNCHANGED <<dispatched, results, rendered>>

\* ------------------------------------------------- on_video_loop_end (48-94)
\* One call of on_video_loop_end for a video with n frames, of which the image
\* ids in lack have no group of detection records; when a sink is enabled it
\* runs visualize up to the `with Pool()` statement.
on_video_loop_end(n, lack) ==
    /\ pc \in {"idle", "returned"}
    /\ video_idx < MaxVideos
    /\ video_idx' = video_idx + 1
    /\ nframes' = n
    /\ lacking' = lack
    /\ consumed' = <<>>
    /\ images' = <<>>
    /\ encoded' = <<>>
    /\ emitted' = <<>>
    /\ muxed' = <<>>
    /\ flushes' = 0
    /\ closes' = 0
    /\ pSteps' = 0
    /\ dispatched' = 0
    /\ inflight' = {}
    /\ results' = <<>>
    /\ rendered' = <<>>
    /\ UNCHANGED config
    /\ IF ~(save_videos \/ save_images)
       THEN /\ pc' = "returned"
            /\ err' = ""
            /\ args' = <<>>
            /\ pool' = "none"
            /\ enc' = "Unopened"
            /\ pInit' = 0
            /\ pTotal' = 0
       ELSE LET total == Total(n)
                s == Sample(n, total)
                b == BuildArgs(s.val, lack)
            IN  /\ pInit' = 1
                /\ pTotal' = total
                /\ pool' = PoolBeforeWith
                /\ IF s.error # ""
                   THEN /\ RaiseInSetup(s.error)
                        /\ args' = <<>>
                        /\ enc' = "Unopened"
                   ELSE IF b.error # ""
                   THEN /\ RaiseInSetup(b.error)
                        /\ args' = <<>>
                        /\ enc' = "Unopened"
                   ELSE /\ args' = b.val
                        /\ enc' = IF save_videos THEN "Open" ELSE "Unopened"
                        /\ pc' = "pool"
                        /\ err' = ""

\* ------------------------------------------- rendering one frame (128-153)
\* An image: the frame it was loaded from, the visualizers that have drawn on
\* it, in drawing order, and whether final_patch has been applied.
NoFrame == [id |-> None, layers |-> <<>>, patched |-> FALSE]
cv2_load_image(image_id) == [id |-> image_id, layers |-> <<>>, patched |-> FALSE]

\* visualizer.draw_frame(image, ...): the visualizer draws on the image in place.
VisualizerDraw(v, image) == [image EXCEPT !.layers = Append(@, v)]

\* final_patch(image): the finished frame.
final_patch(image) == [image EXCEPT !.patched = TRUE]

\* The loop of lines 131-133 from visualizer number i on.
RECURSIVE DrawLayers(_, _, _)
DrawLayers(vis, i, image) ==
    IF i > Len(vis) THEN image
    ELSE DrawLayers(vis, i + 1, VisualizerDraw(vis[i], image))

\* A draw_frame that hands every visualizer a freshly loaded image.
draw_frame_fresh(vis, image_id) ==
    final_patch(IF vis = <<>> THEN cv2_load_image(image_id)
                ELSE VisualizerDraw(vis[Len(vis)], cv2_load_image(image_id)))
\* VisualizationEngine.draw_frame: load the image, let every visualizer draw
\* on it in the order of self.visualizers, return final_patch of it.
draw_frame(vis, image_id) == final_patch(DrawLayers(vis, 1, cv2_load_image(image_id)))

\* process_frame(args): the frame drawn for the task (the file name it also
\* returns is the image id the frame carries).
process_frame(image_id) == draw_frame(visualizers, image_id)

\* ------------------------------------------------------ the pool (96-97)
\* `with Pool() as p:` and `p.imap(process_frame, args)`: the workers are
\* started and every task is queued, in the order of args.
PoolEnter ==
    /\ pc = "pool"
    /\ pool' = "running"
    /\ dispatched' = 0
    /\ inflight' = {}
    /\ results' = [i \in 1..Len(args) |-> "pending"]
    /\ rendered' = [i \in 1..Len(args) |-> NoFrame]
    /\ pc' = "next"
    /\ UNCHANGED <<config, video_idx, err, nframes, lacking, args, consumed,
                   sinkVars, progressVars>>

\* An idle worker takes the next task of the queue.
WorkerTake ==
    /\ pool = "running"
    /\ Cardinality(inflight) < Workers
    /\ dispatched < Len(args)
    /\ dispatched' = dispatched + 1
    /\ inflight' = inflight \cup {dispatched + 1}
    /\ UNCHANGED <<config, video_idx, pc, err, nframes, lacking, args, pool,
                   results, rendered, consumed, sinkVars, progressVars>>

\* process_frame on task i ends in a worker: it returns the frame, or
\* draw_frame raised and the exception is sent back as the task's result.
WorkerFinish(i, outcome) ==
    /\ pool = "running"
    /\ i \in inflight
    /\ inflight' = inflight \ {i}
    /\ results' = [results EXCEPT ![i] = outcome]
    /\ rendered' = [rendered EXCEPT ![i] =
                        IF outcome = "ok" THEN process_frame(args[i]) ELSE NoFrame]
    /\ UNCHANGED <<config, video_idx, pc, err, nframes, lacking, args, pool,
                   dispatched, consumed, sinkVars, progressVars>>

\* imap's iterator: the task whose result next() may return now.  Results
\* are handed out by task number; one that finished early waits its turn.
NextDueUnordered(cons, res) ==
    {i \in DOMAIN res : res[i] # "pending" /\ i \notin Range(cons)}
NextDue(cons, res) ==
    {i \in DOMAIN res : i = Len(cons) + 1 /\ res[i] # "pending"}

\* next() re-raises the exception a worker sent back as a result.
ResultSwallowed(r) == FALSE
ResultRaises(r) == r = "exc"

\* Where the loop body goes after the image sink (line 103: `if`, not `elif`).
AfterImwriteElif == "step"
AfterImwriteUngated == "encode"
AfterImwrite == IF save_videos THEN "encode" ELSE "step"

\* Where the loop body starts (line 98: the image sink when save_images).
AfterNextImagesUnlessVideo ==
    IF save_images /\ ~save_videos THEN "imwrite" ELSE AfterImwrite
AfterNext == IF save_images THEN "imwrite" ELSE AfterImwrite

\* The `for ... in p.imap(...)` header: StopIteration ends the loop and the
\* `with` block; otherwise the next result in sequence is awaited.
ImapNext ==
    /\ pc = "next"
    /\ IF Len(consumed) = Len(args)
       THEN /\ pool' = PoolAfterExit(pool)
            /\ inflight' = IF pool' = "terminated" THEN {} ELSE inflight
            /\ pc' = IF save_videos THEN "flush" ELSE "returned"
            /\ UNCHANGED <<err, consumed, dispatched, results, rendered>>
       ELSE \E i \in NextDue(consumed, results) :
              IF ResultRaises(results[i])
              THEN /\ RaiseInPool("RenderFailure")
                   /\ UNCHANGED consumed
              ELSE /\ consumed' = Append(consumed, i)
                   /\ pc' = AfterNext
                   /\ UNCHANGED <<err, poolVars>>
    /\ UNCHANGED <<config, video_idx, nframes, lacking, args, sinkVars,
                   progressVars>>

\* ------------------------------------------------- the loop body (98-118)
\* `assert cv2.imwrite(...)` (line 101): a write that did not succeed raises
\* AssertionError.
WriteUnchecked(ok) == FALSE
AssertFails(ok) == ~ok

\* Lines 98-101: `assert cv2.imwrite(...)`; ok says whether the write succeeded.
ImWrite(ok) ==
    /\ pc = "imwrite"
    /\ IF ok
       THEN /\ images' = Append(images, args[Last(consumed)])
            /\ pc' = AfterImwrite
            /\ UNCHANGED <<err, poolVars>>
       ELSE IF AssertFails(ok)
       THEN /\ RaiseInPool("AssertionError")
            /\ UNCHANGED images
       ELSE /\ pc' = AfterImwrite
            /\ UNCHANGED <<images, err, poolVars>>
    /\ UNCHANGED <<config, video_idx, nframes, lacking, args, consumed, enc,
                   encoded, emitted, muxed, flushes, closes, progressVars>>

\* stream.encode(frame): the session stays as it is.
EncodeSignalsEOS(e) == "Flushing"
EncodeFrame(e) == e

\* container.mux(packets) writes every packet of the list, in list order
\* (line 116 for an encode call, lines 124-125 for the flush).
MuxFirstOnly(m, pkts) == IF pkts = <<>> THEN m ELSE Append(m, pkts[1])
Mux(m, pkts) == m \o pkts

\* Lines 103-116: the frame is resized, converted and submitted to the codec.
\* ok = FALSE: the conversion or stream.encode(frame) raises (lines 104-114),
\* nothing is submitted.  ok = TRUE: the codec takes the frame and emits k
\* packets (it may buffer); container.mux (line 116) writes them in emission
\* order and either writes all of them (w = k) or raises after the first w,
\* which leaves the emitted packets from the failing one on unwritten and the
\* exception leaving the pool block.
Encode(ok, k, w) ==
    /\ pc = "encode"
    /\ IF ok
       THEN /\ k <= Len(encoded) + 1 - Len(emitted)
            /\ w <= k
            /\ encoded' = Append(encoded, args[Last(consumed)])
            /\ emitted' = Prefix(encoded', Len(emitted) + k)
            /\ muxed' = Mux(muxed, SubSeq(encoded', Len(emitted) + 1, Len(emitted) + w))
            /\ enc' = EncodeFrame(enc)
            /\ IF w = k
               THEN /\ pc' = "step"
                    /\ UNCHANGED <<err, poolVars>>
               ELSE RaiseInPool("MuxError")
       ELSE /\ k = 0
            /\ w = 0
            /\ RaiseInPool("EncodeError")
            /\ UNCHANGED <<encoded, emitted, muxed, enc>>
    /\ UNCHANGED <<config, video_idx, nframes, lacking, args, consumed, images,
                   flushes, closes, progressVars>>

\* Line 118: one step is reported per loop iteration, after both sinks.
StepsPerSink(n) ==
    n + (IF save_images THEN 1 ELSE 0) + (IF save_videos THEN 1 ELSE 0)
StepsAfter(n) == n + 1

\* Line 118: progress.on_module_step_end, then back to the loop header.
ProgressStep ==
    /\ pc = "step"
    /\ pSteps' = StepsAfter(pSteps)
    /\ pc' = "next"
    /\ UNCHANGED <<config, video_idx, err, nframes, lacking, args, poolVars,
                   consumed, sinkVars, pInit, pTotal>>

\* ------------------------------------------------------ finish (120-126)
\* An exception raised in lines 121-126, after the pool block has been left:
\* it leaves visualize at once; the lines after it are not executed.
RaiseInFinish(e) ==
    /\ pc' = "raised"
    /\ err' = e

\* Lines 122-125: stream.encode() signals end-of-stream.  ok = FALSE: the call
\* raises and no packet comes out.  ok = TRUE: the codec emits the packets it
\* still holds and the loop muxes them one by one, in emission order; the
\* loop either writes all of them (w = their number) or container.mux raises
\* after the first w.  Either failure leaves visualize before line 126, so
\* the container is not closed.
Flush(ok, w) ==
    /\ pc = "flush"
    /\ enc' = "Flushing"
    /\ flushes' = flushes + 1
    /\ IF ok
       THEN /\ w <= Len(encoded) - Len(emitted)
            /\ emitted' = encoded
            /\ muxed' = Mux(muxed, SubSeq(encoded, Len(emitted) + 1, Len(emitted) + w))
            /\ IF w = Len(encoded) - Len(emitted)
               THEN /\ pc' = "close"
                    /\ UNCHANGED err
               ELSE RaiseInFinish("MuxError")
       ELSE /\ w = 0
            /\ RaiseInFinish("EncodeError")
            /\ UNCHANGED <<emitted, muxed>>
    /\ UNCHANGED <<config, video_idx, nframes, lacking, args, poolVars,
                   consumed, images, encoded, closes, progressVars>>

\* Line 126: container.close(); visualize returns.
Close ==
    /\ pc = "close"
    /\ enc' = "Closed"
    /\ closes' = closes + 1
    /\ pc' = "returned"
    /\ UNCHANGED <<config, video_idx, err, nframes, lacking, args, poolVars,
                   consumed, images, encoded, emitted, muxed, flushes,
                   progressVars>>

\* ------------------------------------------------------------------- Next
\* At most one image id of a video lacks a group of detection records.
Lacks(n) == {{}} \cup {{i} : i \in 0..(n - 1)}

CallVideo == \E n \in 0..MaxFrames : \E lack \in Lacks(n) : on_video_loop_end(n, lack)
Finish == \E i \in 1..MaxFrames, o \in {"ok", "exc"} : WorkerFinish(i, o)
WriteImage == \E ok \in BOOLEAN : ImWrite(ok)
EncodeStep == \E ok \in BOOLEAN, k \in 0..MaxFrames, w \in 0..MaxFrames : Encode(ok, k, w)
FlushStep == \E ok \in BOOLEAN, w \in 0..MaxFrames : Flush(ok, w)

Next ==
    \/ CallVideo
    \/ PoolEnter
    \/ WorkerTake
    \/ Finish
    \/ ImapNext
    \/ WriteImage
    \/ EncodeStep
    \/ ProgressStep
    \/ FlushStep
    \/ Close

Spec == Init /\ [][Next]_vars

\* ================================================================= claims
\* visualize has been entered for the current video
InRun == video_idx > 0 /\ (save_videos \/ save_images)
SamplerErrors == {"ZeroDivisionError", "ValueError"}
\* the sampler's outcome is visible: args holds its indices unless it raised
SamplerActed == InRun /\ err # "KeyError"
Increasing(s) == \A i, j \in 1..Len(s) : i < j => s[i] < s[j]
NoDup(s) == \A i, j \in 1..Len(s) : i # j => s[i] # s[j]
IsPrefix(s, t) == Len(s) <= Len(t) /\ \A i \in 1..Len(s) : s[i] = t[i]
BudgetSet == max_frames # None /\ max_frames # 0

\* C1: the results consumed by the for loop come out in submission order,
\* whatever the order in which the workers complete: the i-th consumed result
\* is the result of the i-th submitted task.
C1_ResultsInSubmissionOrder ==
    \A i \in 1..Len(consumed) : consumed[i] = i

\* C1 witness: task 3 has finished while task 2 is still being processed, and
\* the loop, having consumed task 1, waits for task 2.
C1_Witness ==
    /\ pc = "next"
    /\ consumed = <<1>>
    /\ Len(results) >= 3
    /\ results[2] = "pending"
    /\ results[3] = "ok"

\* C2: with save_videos, the frames submitted to the encoder are always the
\* first tasks' frames, each once and in construction order; when visualize
\* has returned (no task and no sink failed) every task's frame has been
\* submitted and muxed, so the encoded count equals the number of tasks built
\* (the number of frames of the video when the budget is unset).
C2_EveryFrameEncodedOnceInOrder ==
    (InRun /\ save_videos) =>
        /\ IsPrefix(encoded, args)
        /\ (pc = "returned" =>
              /\ encoded = args
              /\ muxed = args
              /\ enc = "Closed"
              /\ (max_frames = None => Len(encoded) = nframes))

\* C2 witness: a run over a video of at least 3 frames, budget unset, both
\* sinks enabled, has returned with the container closed.
C2_Witness ==
    /\ pc = "returned"
    /\ save_videos
    /\ save_images
    /\ max_frames = None
    /\ enc = "Closed"
    /\ Len(encoded) >= 3

\* C3 (as claimed): for 1 <= T <= N the sampler returns exactly T strictly
\* increasing indices in [0, N), the first of which is 0.
C3_SamplerExactlyT ==
    (SamplerActed /\ BudgetSet /\ 1 <= max_frames /\ max_frames <= nframes) =>
        /\ err \notin SamplerErrors
        /\ Len(args) = max_frames
        /\ Increasing(args)
        /\ Range(args) \subseteq 0..(nframes - 1)
        /\ args[1] = 0

\* C4 (as claimed): with the budget unset the sampler returns all N indices
\* in order without gaps, and raises nothing, N = 0 included.
C4_SamplerUnsetPassThrough ==
    (SamplerActed /\ max_frames = None) =>
        /\ err \notin SamplerErrors
        /\ args = Index(nframes)

\* C5: for T > N the sampler rejects the request or behaves as if T = N; it
\* never yields a duplicate (zero-advancing) or out-of-range index.
C5_OversizedBudgetRejectedOrClamped ==
    (SamplerActed /\ BudgetSet /\ max_frames > nframes) =>
        /\ (err \in SamplerErrors /\ pc = "raised") \/ args = Index(nframes)
        /\ NoDup(args)
        /\ Range(args) \subseteq 0..(nframes - 1)

\* C5 witness: a budget above the frame count of a non-empty video was rejected.
C5_Witness ==
    /\ InRun
    /\ BudgetSet
    /\ nframes >= 1
    /\ max_frames > nframes
    /\ pc = "raised"
    /\ err = "ValueError"
    /\ args = <<>>

\* C6: a budget larger than the frame count is rejected before the pool is
\* provisioned: the run has raised, no pool exists and no task was dispatched.
C6_RejectedBeforePool ==
    (InRun /\ BudgetSet /\ max_frames > nframes) =>
        /\ pc = "raised"
        /\ err = "ValueError"
        /\ pool = "none"
        /\ dispatched = 0
        /\ inflight = {}
        /\ results = <<>>

\* C6 witness: the rejected run, with save_videos on and no session opened.
C6_Witness ==
    /\ InRun
    /\ save_videos
    /\ max_frames > nframes
    /\ pc = "raised"
    /\ pool = "none"
    /\ enc = "Unopened"
    /\ pInit = 1

EncRank(e) == CASE e = "Unopened" -> 0 [] e = "Open" -> 1
                [] e = "Flushing" -> 2 [] e = "Closed" -> 3

\* C7: within one run the encoder session only moves forward, one state at a
\* time, through Unopened -> Open -> Flushing -> Closed; flush and close run
\* at most once; a frame is submitted, and a packet muxed from a submission,
\* only while the session is Open.
C7_EncoderForwardOnly ==
    [][ /\ (video_idx' # video_idx => enc' \in {"Unopened", "Open"})
        /\ (video_idx' = video_idx =>
              /\ EncRank(enc') \in {EncRank(enc), EncRank(enc) + 1}
              /\ flushes' <= 1
              /\ closes' <= 1
              /\ (flushes' # flushes => enc = "Open" /\ enc' = "Flushing")
              /\ (closes' # closes => enc = "Flushing" /\ enc' = "Closed")
              /\ (encoded' # encoded => enc = "Open" /\ enc' = "Open")
              /\ (muxed' # muxed => enc = "Open")) ]_vars

\* C7 witness: a session that took two frames, was flushed once and closed once.
C7_Witness ==
    /\ enc = "Closed"
    /\ flushes = 1
    /\ closes = 1
    /\ Len(encoded) >= 2

\* C8 (as claimed): when a session was opened and a later step failed, the
\* encoder has been flushed and the container closed by the time the error
\* leaves visualize, with every frame encoded before the failure muxed.
C8_EncoderClosedOnFailure ==
    (pc = "raised" /\ save_videos /\ err \in {"RenderFailure", "AssertionError", "EncodeError"}) =>
        /\ enc = "Closed"
        /\ flushes = 1
        /\ closes = 1
        /\ muxed = encoded

\* C9: a worker exception on task k never becomes a frame: no frame of a task
\* numbered k or more reaches a sink and the run does not return normally;
\* the exception leaves visualize exactly when result k is due, with the
\* frames of tasks 1..k-1, and only those, handed to the enabled sinks.
C9_WorkerFailureSurfacesInSequence ==
    /\ \A k \in DOMAIN results :
         results[k] = "exc" =>
            /\ Len(consumed) < k
            /\ Len(images) < k /\ IsPrefix(images, args)
            /\ Len(encoded) < k /\ IsPrefix(encoded, args)
            /\ IsPrefix(muxed, encoded)
            /\ pc \notin {"returned", "flush", "close"}
    /\ err = "RenderFailure" =>
         LET k == Len(consumed) + 1 IN
            /\ pc = "raised"
            /\ k \in DOMAIN results
            /\ results[k] = "exc"
            /\ \A j \in 1..(k - 1) : results[j] = "ok"
            /\ consumed = [j \in 1..(k - 1) |-> j]
            /\ (save_images => images = Prefix(args, k - 1))
            /\ (save_videos => encoded = Prefix(args, k - 1))
            /\ pSteps = k - 1

\* C9 witness: the third task raised; two frames were written to both sinks
\* and a later task had already completed.
C9_Witness ==
    /\ err = "RenderFailure"
    /\ save_images
    /\ save_videos
    /\ Len(consumed) = 2
    /\ Len(images) = 2
    /\ Len(encoded) = 2
    /\ Len(results) >= 4
    /\ results[4] = "ok"

\* the orchestrator is outside the `with Pool()` block
OutsidePool(p) == p \in {"idle", "pool", "flush", "close", "returned", "raised"}
\* the orchestrator has left the `with Pool()` block of the current run
LeftPool(p) == p \in {"flush", "close", "returned", "raised"}

\* C10: on every exit from the pool scope the workers are terminated: outside
\* the scope no pool is running and no worker holds a task, and once visualize
\* has returned or raised nothing is dispatched or completed for that run.
C10_PoolScoped ==
    [][ /\ (OutsidePool(pc') => pool' # "running" /\ inflight' = {})
        /\ (LeftPool(pc) /\ video_idx' = video_idx =>
              dispatched' = dispatched /\ results' = results) ]_vars

\* C10 witness: an image write failed while tasks were still queued and one
\* was finished but not consumed; the pool has been terminated.
C10_Witness ==
    /\ pc = "raised"
    /\ err = "AssertionError"
    /\ pool = "terminated"
    /\ inflight = {}
    /\ dispatched < Len(args)
    /\ \E i \in DOMAIN results : i > Len(consumed) /\ results[i] = "ok"

\* C11 as stated, without exception: whatever the codec buffers, each packet
\* it emits is written to the container at once and in emission order (the
\* container always holds exactly the packets emitted so far, and only grows
\* at its end); when the container is closed the codec has emitted a packet
\* for every submitted frame and all of them are in the container; nothing is
\* written after the close.  It fails when container.mux itself raises: the
\* packets from the failing one on have been emitted and are never written.
C11_EveryPacketMuxedInOrder ==
    [][ /\ muxed' = emitted'
        /\ IsPrefix(emitted', encoded')
        /\ (video_idx' = video_idx => IsPrefix(muxed, muxed'))
        /\ (enc' = "Closed" => emitted' = encoded' /\ muxed' = encoded')
        /\ (enc = "Closed" /\ video_idx' = video_idx => muxed' = muxed) ]_vars

\* C11 (amended): every packet the codec emits is handed to container.mux at
\* once and in emission order, none skipped: the container always holds a
\* prefix of the packets emitted so far and only grows at its end.  It holds
\* all of them unless a container.mux call itself raised, and then that
\* exception has left visualize with the container unclosed.  When the
\* container is closed the codec has emitted a packet for every submitted
\* frame and all of them are in the container; nothing is written after the
\* close.
C11_PacketsMuxedUnlessMuxRaises ==
    [][ /\ IsPrefix(muxed', emitted')
        /\ IsPrefix(emitted', encoded')
        /\ (muxed' # emitted' =>
              pc' = "raised" /\ err' = "MuxError" /\ enc' # "Closed" /\ closes' = 0)
        /\ (err' # "MuxError" => muxed' = emitted')
        /\ (video_idx' = video_idx => IsPrefix(muxed, muxed'))
        /\ (enc' = "Closed" => emitted' = encoded' /\ muxed' = encoded')
        /\ (enc = "Closed" /\ video_idx' = video_idx => muxed' = muxed) ]_vars

\* C11 witness: the loop has ended with three frames submitted, one packet
\* emitted and muxed during the loop and two still held by the codec for the
\* end-of-stream flush.
C11_Witness ==
    /\ pc = "flush"
    /\ Len(encoded) = 3
    /\ Len(emitted) = 1
    /\ muxed = emitted

\* C12: when a run with save_images has returned, one image file has been
\* written per sampled frame, for exactly the sampled frames; when the budget
\* T divides N these are the T frames 0, N/T, 2N/T, ... (0,10,...,90 for
\* N=100, T=10).
C12_OneImagePerSampledFrame ==
    (InRun /\ save_images /\ pc = "returned") =>
        /\ images = args
        /\ NoDup(images)
        /\ (BudgetSet /\ nframes % max_frames = 0 =>
              images = [k \in 1..max_frames |-> (k - 1) * (nframes \div max_frames)])

\* C12 witness: N = 4, T = 2, both sinks on: the images of frames 0 and 2.
C12_Witness ==
    /\ pc = "returned"
    /\ save_images
    /\ save_videos
    /\ nframes = 4
    /\ max_frames = 2
    /\ images = <<0, 2>>

\* C13: a disabled sink is never touched (without save_videos no session is
\* opened, fed, flushed or closed; without save_images no image is written)
\* and an enabled sink receives the tasks' frames in order, all of them once
\* the run has returned, whether or not the other sink is enabled.
C13_SinksGatedByConfiguration ==
    /\ ~save_videos =>
          /\ enc = "Unopened"
          /\ encoded = <<>> /\ emitted = <<>> /\ muxed = <<>>
          /\ flushes = 0 /\ closes = 0
    /\ ~save_images => images = <<>>
    /\ (InRun /\ save_images) =>
          IsPrefix(images, args) /\ (pc = "returned" => images = args)
    /\ (InRun /\ save_videos) =>
          IsPrefix(encoded, args) /\ (pc = "returned" => encoded = args)

\* C13 witness: a run with only the image sink enabled has returned with two
\* images written and the encoder untouched.
C13_Witness ==
    /\ pc = "returned"
    /\ save_images
    /\ ~save_videos
    /\ Len(images) >= 2
    /\ enc = "Unopened"

\* C14 (as claimed): with process_n_videos = n only the first n videos are
\* visualized; for a later video visualize is not entered: no progress, no
\* pool, no sink.
C14_AtMostNVideos ==
    (max_videos # None /\ video_idx > max_videos) =>
        /\ pInit = 0
        /\ pool = "none"
        /\ args = <<>>
        /\ images = <<>>
        /\ enc = "Unopened"

\* C15: for every rendered frame each configured visualizer has drawn exactly
\* once on that frame's image, in the configured order and on the image as the
\* previous one left it; that composed image (through final_patch) is the
\* frame returned for the task.
C15_VisualizersComposedInOrder ==
    \A i \in DOMAIN results :
        results[i] = "ok" =>
            /\ rendered[i].id = args[i]
            /\ rendered[i].layers = visualizers
            /\ rendered[i].patched

\* C15 witness: two visualizers are configured and a frame has been rendered
\* with both layers.
C15_Witness ==
    /\ Len(visualizers) = 2
    /\ \E i \in DOMAIN results :
          results[i] = "ok" /\ rendered[i].layers = <<1, 2>> /\ rendered[i].id = args[i]

\* the frame just consumed has been through every enabled sink
BodyDone(p) == p \in {"step", "next", "flush", "close", "returned"}

\* C16: in every visualize run the progress bar is initialised exactly once,
\* before any step; one step is reported per consumed frame, never before
\* that frame has been handed to every enabled sink, and none for a frame
\* that was not consumed.
C16_ProgressInitThenOneStepPerFrame ==
    /\ pSteps > 0 => pInit = 1
    /\ InRun =>
          /\ pInit = 1
          /\ pSteps <= Len(consumed)
          /\ (save_images => pSteps <= Len(images))
          /\ (save_videos => pSteps <= Len(encoded))
          /\ (pc \in {"next", "flush", "close", "returned"} => pSteps = Len(consumed))
          /\ (pc \in {"imwrite", "encode", "step"} => pSteps = Len(consumed) - 1)
    /\ ~InRun => pInit = 0 /\ pSteps = 0

\* C16 witness: the second frame has been written to both sinks and its step
\* is about to be reported.
C16_Witness ==
    /\ pc = "step"
    /\ save_images
    /\ save_videos
    /\ pInit = 1
    /\ pSteps = 1
    /\ Len(images) = 2
    /\ Len(encoded) = 2

\* C17: an image write that does not succeed is never skipped silently (past
\* the image sink every consumed frame has its image) but raises at once: the
\* frame is not submitted to the encoder, no step is reported for it and the
\* sinks hold exactly the frames before it.
C17_ImageWriteFailureRaises ==
    /\ (InRun /\ save_images /\ (BodyDone(pc) \/ pc = "encode")) =>
          Len(images) = Len(consumed)
    /\ err = "AssertionError" =>
          LET k == Len(consumed) IN
            /\ pc = "raised"
            /\ save_images
            /\ k >= 1
            /\ images = Prefix(args, k - 1)
            /\ (save_videos => encoded = Prefix(args, k - 1))
            /\ (~save_videos => encoded = <<>>)
            /\ pSteps = k - 1

\* C17 witness: the write of the third frame's image failed with both sinks
\* enabled.
C17_Witness ==
    /\ err = "AssertionError"
    /\ save_videos
    /\ Len(consumed) = 3
    /\ Len(images) = 2
    /\ Len(encoded) = 2
    /\ pSteps = 2

\* C18: for 1 <= T <= N the sampled frames are spread over the video: with
\* stride s = N // T they are exactly the multiples of s below N, in
\* increasing order (not the first T frames).
C18_SamplesAreStrideMultiples ==
    (SamplerActed /\ BudgetSet /\ 1 <= max_frames /\ max_frames <= nframes) =>
        LET s == nframes \div max_frames IN
            /\ err \notin SamplerErrors
            /\ Range(args) = {i \in 0..(nframes - 1) : i % s = 0}
            /\ Increasing(args)

\* C18 witness: N = 4, T = 2: frames 0 and 2 are sampled and the run has got
\* past the construction of its tasks.
C18_Witness ==
    /\ InRun
    /\ nframes = 4
    /\ max_frames = 2
    /\ args = <<0, 2>>
    /\ pc = "next"

\* the image ids the sampler selects for the current video
Sampled == Sample(nframes, Total(nframes))

\* C19 (as claimed): a task is built for every sampled frame whatever records
\* the video has: a sampled frame without a group of records does not make
\* the construction fail, and the tasks are those of all sampled frames.
C19_TaskForEverySampledFrame ==
    (InRun /\ Sampled.error = "") =>
        /\ err # "KeyError"
        /\ args = Sampled.val

\* C20 (as claimed): when a run has returned, the total announced at
\* init_progress_bar equals the number of steps reported.
C20_AnnouncedTotalEqualsSteps ==
    (InRun /\ pc = "returned" /\ nframes >= 1
        /\ (BudgetSet => max_frames <= nframes)) =>
        pTotal = pSteps

====
